---- MODULE Spec2Model ----
(***************************************************************************)
(* pinfinder (gwatts/pinfinder): a model of the restrictions-passcode      *)
(* finder.  Three parts of src/pinfinder.go are modelled:                  *)
(*   - findPIN and its caller generateReport: the concurrent brute-force   *)
(*     search of the PIN keyspace (goroutines, the unbuffered channel      *)
(*     found, the WaitGroup wg and its WaitChan);                          *)
(*   - the partition loop of findPIN on the real keyspace of 10000 PINs;   *)
(*   - loadBackups / loadBackup / isEncrypted: the catalog of backups.     *)
(* Each part has its own specification over the shared variables.          *)
(***************************************************************************)
EXTENDS Integers, Sequences, FiniteSets, TLC

(***************************************************************************)
(* Program constants and model bounds.                                     *)
(***************************************************************************)
\* const maxPIN = 10000
maxPIN == 10000

\* The scaled keyspace the concurrent search is explored on (the code's
\* keyspace is maxPIN; the interleavings of W goroutines over 10000
\* candidates are out of reach, the partition itself is checked on maxPIN).
ScaledMaxPIN == 7

\* runtime.NumCPU() ranges over 1..MaxCPU in the concurrent search.
MaxCPU == 3

\* runtime.NumCPU() ranges over 1..MaxWorkers in the partition loop.
MaxWorkers == 64

\* Number of findPIN outcomes remembered for comparison with a later call
\* on the same credential.
MaxCalls == 1

\* Last Backup Date ranges over 1..MaxTime.
MaxTime == 3

\* A sync directory has at most MaxEntries entries.
MaxEntries == 2

\* The catalog is explored up to MaxBackups records.
MaxBackups == 3

(***************************************************************************)
(* Byte strings.  A []byte is a sequence of small naturals.                *)
(***************************************************************************)
Bytes == {0, 1}

\* The keys and salts a record can carry (Restrictions.Key/Salt): empty
\* (field never decoded) or non-empty.
Keys == {<<>>, <<1>>}
Salts == {<<>>, <<1>>}

\* All byte strings of length n.
BytesOfLen(n) == [1..n -> Bytes]

VARIABLES
    \* ---- findPIN / generateReport ----
    key,        \* b.Restrictions.Key
    salt,       \* b.Restrictions.Salt
    dk,         \* the table of pbkdf2.Key(guess, salt, 1000, len(key), sha1.New)
    space,      \* the size of the keyspace (maxPIN, scaled)
    NumCPU,     \* runtime.NumCPU()
    pc,         \* position of the caller / of findPIN's own goroutine
    i,          \* loop index of findPIN
    start,      \* findPIN local
    end,        \* findPIN local
    workers,    \* the goroutines started so far, in spawn order
    wg,         \* the WaitGroup counter
    waiter,     \* the goroutine of WaitChan: "none", "wait", "done"
    waitc,      \* number of elements in the channel c of WaitChan (cap 1)
    ret,        \* what the current call returned / the report row printed
    evaluated,  \* candidates the workers of the current call have derived
    calls,      \* outcomes of the completed calls, oldest first
    \* ---- loadBackup / loadBackups / getpw ----
    stdin,      \* what the operator types if the password prompt is shown
    prompted,   \* var prompted bool
    cachepw,    \* var cachepw string
    dir,        \* the directory the last loadBackup call was given
    b,          \* what the last loadBackup call returned
    asked,      \* number of password prompts shown so far
    unlocks,    \* number of iosbackup.Open calls the last loadBackup made
    \* ---- main / loadBackups / generateReport ----
    backups,    \* allBackups.backups
    encrypted,  \* allBackups.encrypted
    phase,      \* position of main
    listing,    \* the entries the last loadBackups call enumerated
    before,     \* length of the list when that call began
    rows,       \* the rows generateReport printed
    failed      \* the records generateReport lists as failed

pinVars == <<key, salt, dk, space, NumCPU, pc, i, start, end, workers, wg,
             waiter, waitc, ret, evaluated, calls>>

loadVars == <<stdin, prompted, cachepw, dir, b, asked, unlocks>>

catVars == <<backups, encrypted, phase, listing, before, rows, failed>>

vars == <<pinVars, loadVars, catVars>>

(***************************************************************************)
(* Backups on disk.                                                        *)
(*                                                                         *)
(* A backup directory is described by what the loader can observe of it:   *)
(*   path      the directory's path (a sequence of names)                  *)
(*   ptr       the identity of the record made for it (a Go pointer)       *)
(*   info      Info.plist:     absent, not a plist, or its decoded fields  *)
(*   manifest  Manifest.plist: absent, not a plist, or its decoded field   *)
(*   tree      the files below the directory: relative path -> node        *)
(*   enc       how the encrypted container answers the iosbackup calls     *)
(* File names are sequences of characters, so that a prefix of a name can  *)
(* be taken.                                                               *)
(***************************************************************************)
\* restrictionsPlistName = "398bc9c2aeeab4cb0c12ada0f52eea12cf14f40b"
restrictionsPlistName ==
    <<"3","9","8","b","c","9","c","2","a","e","e","a","b","4","c","b","0","c","1","2",
      "a","d","a","0","f","5","2","e","e","a","1","2","c","f","1","4","f","4","0","b">>

msgIsEncrypted == "backup is encrypted"
msgNoPasscode == "none"
msgIncorrectPassword == "incorrect encryption password"
msgNoPassword == "need encryption password"
msgIos12 == "iOS 12 not supported yet :-("
\* err.Error() of a failed plist decode, of iosbackup.Open and of Load
msgPlistError == "plist: decode error"
msgOpenFailed == "Failed to open backup: error"
msgLoadFailed == "load: error"

\* (mutant) the unsupported prefix is "13."
ios13Prefix == <<"1", "3", ".">>

\* The unsupported major-version prefix "12."
ios12Prefix == <<"1", "2", ".">>

\* strings.HasPrefix(s, prefix)
HasPrefix(s, prefix) ==
    Len(s) >= Len(prefix) /\ SubSeq(s, 1, Len(prefix)) = prefix

\* filepath.Join(backupDir, elem...): a path below a backup directory
Join(backupDir, rel) == [dir |-> backupDir, rel |-> rel]

\* (mutant) the sharded location is built from the first three characters
SubPathPrefix3(backupDir) ==
    Join(backupDir, <<SubSeq(restrictionsPlistName, 1, 3), restrictionsPlistName>>)

\* filepath.Join(backupDir, restrictionsPlistName)
TopPath(backupDir) == Join(backupDir, <<restrictionsPlistName>>)

\* filepath.Join(backupDir, restrictionsPlistName[:2], restrictionsPlistName)
SubPath(backupDir) ==
    Join(backupDir, <<SubSeq(restrictionsPlistName, 1, 2), restrictionsPlistName>>)

\* What is at path p of the directory d (os.Stat).
Node(d, p) ==
    IF p.dir = d.path /\ p.rel \in DOMAIN d.tree
      THEN d.tree[p.rel]
      ELSE [kind |-> "absent"]

\* os.Stat(p) returns an error
StatFails(d, p) == Node(d, p).kind = "absent"

\* fileExists(fn): os.Stat succeeds and the mode is regular
fileExists(d, p) == Node(d, p).kind = "file"

(***************************************************************************)
(* Property lists.  A <data> element holds base64 text, modelled as the    *)
(* sequence of its 6-bit digits; decoding packs them into 8-bit bytes.     *)
(***************************************************************************)
RECURSIVE Base64Decode(_)
Base64Decode(t) ==
    IF Len(t) >= 4
      THEN <<t[1] * 4 + t[2] \div 16,
             (t[2] % 16) * 16 + t[3] \div 4,
             (t[3] % 4) * 64 + t[4]>> \o Base64Decode(SubSeq(t, 5, Len(t)))
    ELSE IF Len(t) = 3
      THEN <<t[1] * 4 + t[2] \div 16, (t[2] % 16) * 16 + t[3] \div 4>>
    ELSE IF Len(t) = 2
      THEN <<t[1] * 4 + t[2] \div 16>>
    ELSE <<>>

\* The zero value of backup.Restrictions
NoRestrictions == [Key |-> <<>>, Salt |-> <<>>]

\* plist.NewDecoder(f).Decode(&b.Restrictions) on content c: the error, and
\* the struct with the fields the dict has; a missing key leaves its field
\* empty.  The document is parsed first, then the fields of the struct are
\* filled in their order, Key before Salt; a value that is not <data> stops
\* the decoding with an error and the fields filled before it stay filled.
DecodeRestrictions(c) ==
    IF ~c.plist
      THEN [err |-> TRUE, val |-> NoRestrictions]
    ELSE IF "mistyped" \in DOMAIN c
      THEN [err |-> TRUE,
            val |-> [Key  |-> IF c.mistyped = "RestrictionsPasswordSalt"
                                   /\ "RestrictionsPasswordKey" \in DOMAIN c.dict
                                THEN Base64Decode(c.dict["RestrictionsPasswordKey"])
                                ELSE <<>>,
                     Salt |-> <<>>]]
      ELSE [err |-> FALSE,
            val |-> [Key  |-> IF "RestrictionsPasswordKey" \in DOMAIN c.dict
                                THEN Base64Decode(c.dict["RestrictionsPasswordKey"])
                                ELSE <<>>,
                     Salt |-> IF "RestrictionsPasswordSalt" \in DOMAIN c.dict
                                THEN Base64Decode(c.dict["RestrictionsPasswordSalt"])
                                ELSE <<>>]]

(***************************************************************************)
(* backup.isEncrypted: a type switch on the decoded IsEncrypted value.     *)
(***************************************************************************)
\* (mutant) only the boolean form is understood
isEncryptedBoolOnly(v) ==
    CASE v.kind = "bool" -> v.val
      [] OTHER -> FALSE

\* (mutant) every flag that is present counts as encrypted
isEncryptedAnyValue(v) == v.kind # "nil"

isEncrypted(v) ==
    CASE v.kind = "int" -> v.val # 0
      [] v.kind = "uint64" -> v.val # 0
      [] v.kind = "bool" -> v.val
      [] v.kind = "nil" -> FALSE
      [] OTHER -> FALSE

(***************************************************************************)
(* getpw and decrypt                                                       *)
(***************************************************************************)
\* (mutant) getpw prompts on every call
getpwNoCache(pw, typed) ==
    [pw |-> typed, prompted |-> TRUE, cachepw |-> typed, asked |-> 1]

\* getpw(): the cached password once prompted, else what the operator types
getpw(pw, typed) ==
    IF pw.prompted
      THEN [pw |-> pw.cachepw, prompted |-> TRUE, cachepw |-> pw.cachepw, asked |-> 0]
      ELSE [pw |-> typed, prompted |-> TRUE, cachepw |-> typed, asked |-> 1]

\* (mutant) the empty password is tried on the container like any other
decryptNoSkip(d, pw, typed) ==
    LET g == getpw(pw, typed)
        e == d.enc
        out(status, restr, opened) ==
            [Status |-> status, Restrictions |-> restr, prompted |-> g.prompted,
             cachepw |-> g.cachepw, asked |-> g.asked, unlocks |-> opened]
        dec == DecodeRestrictions(e.data)
    IN  IF ~e.open THEN out(msgOpenFailed, NoRestrictions, 1)
        ELSE IF g.pw # e.password THEN out(msgIncorrectPassword, NoRestrictions, 1)
        ELSE IF ~e.load THEN out(msgLoadFailed, NoRestrictions, 1)
        ELSE IF ~e.rec THEN out(msgNoPassword, NoRestrictions, 1)
        ELSE IF ~e.read THEN out(msgIncorrectPassword, NoRestrictions, 1)
        ELSE IF dec.err THEN out(msgIncorrectPassword, dec.val, 1)
        ELSE out("", dec.val, 1)

\* decrypt(backupDir, &b): the status and the restrictions it leaves in b,
\* and the password state after it.
decrypt(d, pw, typed) ==
    LET g == getpw(pw, typed)
        e == d.enc
        out(status, restr, opened) ==
            [Status |-> status, Restrictions |-> restr, prompted |-> g.prompted,
             cachepw |-> g.cachepw, asked |-> g.asked, unlocks |-> opened]
        dec == DecodeRestrictions(e.data)
    IN  IF g.pw = "" THEN out(msgIsEncrypted, NoRestrictions, 0)
        ELSE IF ~e.open THEN out(msgOpenFailed, NoRestrictions, 1)
        ELSE IF g.pw # e.password THEN out(msgIncorrectPassword, NoRestrictions, 1)
        ELSE IF ~e.load THEN out(msgLoadFailed, NoRestrictions, 1)
        ELSE IF ~e.rec THEN out(msgNoPassword, NoRestrictions, 1)
        ELSE IF ~e.read THEN out(msgIncorrectPassword, NoRestrictions, 1)
        ELSE IF dec.err THEN out(msgIncorrectPassword, dec.val, 1)
        ELSE out("", dec.val, 1)

(***************************************************************************)
(* loadBackup                                                              *)
(***************************************************************************)
\* loadBackup returned nil
Nil == [nil |-> TRUE]

\* No directory loaded yet.
NoDir == [none |-> TRUE]

\* The zero value of a path
NoPath == [dir |-> <<>>, rel |-> <<>>]

\* var b backup, with Info and Manifest decoded
NewBackup(d) ==
    [nil |-> FALSE,
     ptr |-> d.ptr,
     Path |-> <<>>,
     Status |-> "",
     RestrictionsPath |-> NoPath,
     Info |-> [LastBackup |-> d.info.LastBackup,
               ProductVersion |-> d.info.ProductVersion],
     Manifest |-> [IsEncrypted |-> d.manifest.IsEncrypted],
     Restrictions |-> NoRestrictions]

\* (mutant) the sharded location is preferred when something is there
RestrictionsPathSubFirst(d) ==
    IF StatFails(d, SubPath(d.path)) THEN TopPath(d.path) ELSE SubPath(d.path)

\* The path loadBackup settles on: the top-level one unless os.Stat fails
RestrictionsPathOf(d) ==
    IF StatFails(d, TopPath(d.path)) THEN SubPath(d.path) ELSE TopPath(d.path)

\* (mutant) an encrypted backup goes to decrypt before the restrictions file
\* is looked for
loadBackupDecryptFirst(d, pw, typed) ==
    LET same(rec) == [b |-> rec, prompted |-> pw.prompted, cachepw |-> pw.cachepw,
                      asked |-> 0, unlocks |-> 0]
    IN  IF d.info.state # "ok" THEN same(Nil)
        ELSE IF d.manifest.state # "ok" THEN same(Nil)
        ELSE LET b0 == NewBackup(d)
             IN  IF HasPrefix(b0.Info.ProductVersion, ios12Prefix)
                   THEN same([b0 EXCEPT !.Status = msgIos12])
                 ELSE LET b1 == [b0 EXCEPT !.RestrictionsPath = RestrictionsPathOf(d),
                                           !.Path = d.path]
                      IN  IF isEncrypted(b1.Manifest.IsEncrypted)
                            THEN LET r == decrypt(d, pw, typed)
                                 IN  [b |-> [b1 EXCEPT !.Status = r.Status,
                                                       !.Restrictions = r.Restrictions],
                                      prompted |-> r.prompted, cachepw |-> r.cachepw,
                                      asked |-> r.asked, unlocks |-> r.unlocks]
                          ELSE IF ~fileExists(d, b1.RestrictionsPath)
                            THEN same([b1 EXCEPT !.Status = msgNoPasscode])
                          ELSE LET dec == DecodeRestrictions(
                                              Node(d, b1.RestrictionsPath).content)
                               IN  same([b1 EXCEPT
                                           !.Status = IF dec.err THEN msgPlistError
                                                                 ELSE "",
                                           !.Restrictions = dec.val])

\* loadBackup(backupDir): the record (or Nil) and the password state after
\* the call.
loadBackup(d, pw, typed) ==
    LET same(rec) == [b |-> rec, prompted |-> pw.prompted, cachepw |-> pw.cachepw,
                      asked |-> 0, unlocks |-> 0]
    IN  IF d.info.state # "ok" THEN same(Nil)
        ELSE IF d.manifest.state # "ok" THEN same(Nil)
        ELSE LET b0 == NewBackup(d)
             IN  IF HasPrefix(b0.Info.ProductVersion, ios12Prefix)
                   THEN same([b0 EXCEPT !.Status = msgIos12])
                 ELSE LET b1 == [b0 EXCEPT !.RestrictionsPath = RestrictionsPathOf(d),
                                           !.Path = d.path]
                      IN  IF ~fileExists(d, b1.RestrictionsPath)
                            THEN same([b1 EXCEPT !.Status = msgNoPasscode])
                          ELSE IF isEncrypted(b1.Manifest.IsEncrypted)
                            THEN LET r == decrypt(d, pw, typed)
                                 IN  [b |-> [b1 EXCEPT !.Status = r.Status,
                                                       !.Restrictions = r.Restrictions],
                                      prompted |-> r.prompted, cachepw |-> r.cachepw,
                                      asked |-> r.asked, unlocks |-> r.unlocks]
                          ELSE LET dec == DecodeRestrictions(
                                              Node(d, b1.RestrictionsPath).content)
                               IN  same([b1 EXCEPT
                                           !.Status = IF dec.err THEN msgPlistError
                                                                 ELSE "",
                                           !.Restrictions = dec.val])

(***************************************************************************)
(* fmt.Sprintf("%04d", j)                                                  *)
(***************************************************************************)
RECURSIVE Digits(_)
Digits(n) == IF n < 10 THEN <<n>> ELSE Append(Digits(n \div 10), n % 10)

RECURSIVE ZeroPad(_, _)
ZeroPad(s, width) == IF Len(s) >= width THEN s ELSE ZeroPad(<<0>> \o s, width)

Sprintf04d(j) == ZeroPad(Digits(j), 4)

\* The guesses of a keyspace of n candidates.
Guesses(n) == {Sprintf04d(c) : c \in 0..(n - 1)}

(***************************************************************************)
(* pbkdf2.Key([]byte(guess), salt, 1000, len(key), sha1.New): an external  *)
(* function.  Its table for the salt at hand is drawn in Init from all     *)
(* tables whose values have len(key) bytes.                                *)
(***************************************************************************)
Key(guess) == dk[guess]

\* bytes.Equal(k, key)
Equal(k1, k2) == k1 = k2

(***************************************************************************)
(* findPIN                                                                 *)
(***************************************************************************)
NoRet == [kind |-> "none"]
Found(pin) == [kind |-> "pin", pin |-> pin]
Failed == [kind |-> "error"]       \* errors.New("failed to calculate PIN")
StatusRow == [kind |-> "status"]   \* the row prints b.Status

\* perCPU := maxPIN / runtime.NumCPU()
perCPU == space \div NumCPU

\* (mutant) the last worker gets no remainder: end += perCPU always
NextEndNoRemainder(n) == end + perCPU

\* end of the sub-range of worker number n (the loop's if/else)
NextEnd(n) == IF n = NumCPU - 1 THEN space ELSE end + perCPU

\* (mutant) generateReport calls findPIN whatever the key
ShouldSearchAlways == TRUE

\* generateReport: if len(b.Restrictions.Key) > 0 { findPIN(...) } else
\* { print b.Status }
ShouldSearch == Len(key) > 0

\* generateReport reaches the row of the record.
Call ==
    /\ pc = "idle"
    /\ IF ShouldSearch
         THEN /\ pc' = "loop"
              /\ ret' = NoRet
         ELSE /\ pc' = "done"
              /\ ret' = StatusRow
    /\ i' = 0
    /\ start' = 0
    /\ end' = 0
    /\ workers' = <<>>
    /\ wg' = 0
    /\ waiter' = "none"
    /\ waitc' = 0
    /\ evaluated' = {}
    /\ UNCHANGED <<loadVars, catVars>>
    /\ UNCHANGED <<key, salt, dk, space, NumCPU, calls>>

\* One iteration of the for loop: wg.Add(1), compute end, go func(start, end),
\* start += perCPU.
Spawn ==
    /\ pc = "loop"
    /\ i < NumCPU
    /\ wg' = wg + 1
    /\ end' = NextEnd(i)
    /\ workers' = Append(workers,
                         [start |-> start, end |-> end', j |-> start, st |-> "run"])
    /\ start' = start + perCPU
    /\ i' = i + 1
    /\ UNCHANGED <<loadVars, catVars>>
    /\ UNCHANGED <<key, salt, dk, space, NumCPU, pc, waiter, waitc, ret,
                   evaluated, calls>>

\* The loop ends; the select statement evaluates wg.WaitChan(), which makes
\* the channel c and starts the waiter goroutine.
WaitChan ==
    /\ pc = "loop"
    /\ i = NumCPU
    /\ pc' = "select"
    /\ waiter' = "wait"
    /\ UNCHANGED <<loadVars, catVars>>
    /\ UNCHANGED <<key, salt, dk, space, NumCPU, i, start, end, workers, wg,
                   waitc, ret, evaluated, calls>>

\* (mutant) a matching worker calls wg.Done() before it sends its guess
WorkerStepDoneFirst(w) ==
    /\ workers[w].st = "run"
    /\ workers[w].j < workers[w].end
    /\ LET j == workers[w].j
           guess == Sprintf04d(j)
           k == Key(guess)
       IN  /\ evaluated' = evaluated \cup {j}
           /\ IF Equal(k, key)
                THEN /\ workers' = [workers EXCEPT ![w].st = "send"]
                     /\ wg' = wg - 1
                ELSE /\ workers' = [workers EXCEPT ![w].j = j + 1]
                     /\ wg' = wg
    /\ UNCHANGED <<loadVars, catVars>>
    /\ UNCHANGED <<key, salt, dk, space, NumCPU, pc, i, start, end,
                   waiter, waitc, ret, calls>>

\* (mutant) a matching worker goes on with the next candidate instead of
\* reporting and returning
WorkerStepNoReturn(w) ==
    /\ workers[w].st = "run"
    /\ workers[w].j < workers[w].end
    /\ LET j == workers[w].j
       IN  /\ evaluated' = evaluated \cup {j}
           /\ workers' = [workers EXCEPT ![w].j = j + 1]
    /\ UNCHANGED <<loadVars, catVars>>
    /\ UNCHANGED <<key, salt, dk, space, NumCPU, pc, i, start, end, wg,
                   waiter, waitc, ret, calls>>

\* One iteration of a worker's loop: format, derive, compare.  On a match the
\* worker blocks in "found <- guess".
WorkerStep(w) ==
    /\ workers[w].st = "run"
    /\ workers[w].j < workers[w].end
    /\ LET j == workers[w].j
           guess == Sprintf04d(j)
           k == Key(guess)
       IN  /\ evaluated' = evaluated \cup {j}
           /\ IF Equal(k, key)
                THEN workers' = [workers EXCEPT ![w].st = "send"]
                ELSE workers' = [workers EXCEPT ![w].j = j + 1]
    /\ UNCHANGED <<loadVars, catVars>>
    /\ UNCHANGED <<key, salt, dk, space, NumCPU, pc, i, start, end, wg,
                   waiter, waitc, ret, calls>>

\* (mutant) a worker whose loop ended returns without wg.Done()
WorkerDoneForgotten(w) ==
    /\ workers[w].st = "run"
    /\ workers[w].j >= workers[w].end
    /\ wg' = wg
    /\ workers' = [workers EXCEPT ![w].st = "done"]
    /\ UNCHANGED <<loadVars, catVars>>
    /\ UNCHANGED <<key, salt, dk, space, NumCPU, pc, i, start, end, waiter,
                   waitc, ret, evaluated, calls>>

\* A worker whose loop ended calls wg.Done().
WorkerDone(w) ==
    /\ workers[w].st = "run"
    /\ workers[w].j >= workers[w].end
    /\ wg' = wg - 1
    /\ workers' = [workers EXCEPT ![w].st = "done"]
    /\ UNCHANGED <<loadVars, catVars>>
    /\ UNCHANGED <<key, salt, dk, space, NumCPU, pc, i, start, end, waiter,
                   waitc, ret, evaluated, calls>>

\* (mutant) wg.Wait() returns while one worker is still running
WaiterWakeEarly ==
    /\ waiter = "wait"
    /\ wg <= 1
    /\ waiter' = "done"
    /\ waitc' = waitc + 1
    /\ UNCHANGED <<loadVars, catVars>>
    /\ UNCHANGED <<key, salt, dk, space, NumCPU, pc, i, start, end, workers,
                   wg, ret, evaluated, calls>>

\* The waiter goroutine: wg.Wait() returns once the counter is zero, then
\* c <- struct{}{} (c has capacity 1, the send never blocks).
WaiterWake ==
    /\ waiter = "wait"
    /\ wg = 0
    /\ waiter' = "done"
    /\ waitc' = waitc + 1
    /\ UNCHANGED <<loadVars, catVars>>
    /\ UNCHANGED <<key, salt, dk, space, NumCPU, pc, i, start, end, workers,
                   wg, ret, evaluated, calls>>

\* (mutant) the receive waits until no other worker is running
RecvFoundAfterJoin(w) ==
    /\ pc = "select"
    /\ workers[w].st = "send"
    /\ \A v \in 1..Len(workers) : workers[v].st # "run"
    /\ ret' = Found(Sprintf04d(workers[w].j))
    /\ workers' = [workers EXCEPT ![w].st = "sent"]
    /\ pc' = "done"
    /\ UNCHANGED <<loadVars, catVars>>
    /\ UNCHANGED <<key, salt, dk, space, NumCPU, i, start, end, wg, waiter,
                   waitc, evaluated, calls>>

\* select, case pin := <-found: the rendezvous with a worker blocked in
\* "found <- guess"; the worker then returns without wg.Done().
RecvFound(w) ==
    /\ pc = "select"
    /\ workers[w].st = "send"
    /\ ret' = Found(Sprintf04d(workers[w].j))
    /\ workers' = [workers EXCEPT ![w].st = "sent"]
    /\ pc' = "done"
    /\ UNCHANGED <<loadVars, catVars>>
    /\ UNCHANGED <<key, salt, dk, space, NumCPU, i, start, end, wg, waiter,
                   waitc, evaluated, calls>>

\* select, case <-wg.WaitChan()
RecvDone ==
    /\ pc = "select"
    /\ waitc > 0
    /\ waitc' = waitc - 1
    /\ ret' = Failed
    /\ pc' = "done"
    /\ UNCHANGED <<loadVars, catVars>>
    /\ UNCHANGED <<key, salt, dk, space, NumCPU, i, start, end, workers, wg,
                   waiter, evaluated, calls>>

\* The row is printed; generateReport goes on to a record that carries the
\* same credential.  The goroutines the finished call left behind share
\* nothing with the next call (found, wg and c are locals of findPIN): they
\* are dropped from the state.
Again ==
    /\ pc = "done"
    /\ Len(calls) < MaxCalls
    /\ calls' = Append(calls, ret)
    /\ pc' = "idle"
    /\ ret' = NoRet
    /\ i' = 0
    /\ start' = 0
    /\ end' = 0
    /\ workers' = <<>>
    /\ wg' = 0
    /\ waiter' = "none"
    /\ waitc' = 0
    /\ evaluated' = {}
    /\ UNCHANGED <<loadVars, catVars>>
    /\ UNCHANGED <<key, salt, dk, space, NumCPU>>

InitPIN ==
    /\ key \in Keys
    /\ salt \in Salts
    /\ space = ScaledMaxPIN
    /\ dk \in [Guesses(ScaledMaxPIN) -> BytesOfLen(Len(key))]
    /\ NumCPU \in 1..MaxCPU
    /\ pc = "idle"
    /\ i = 0
    /\ start = 0
    /\ end = 0
    /\ workers = <<>>
    /\ wg = 0
    /\ waiter = "none"
    /\ waitc = 0
    /\ ret = NoRet
    /\ evaluated = {}
    /\ calls = <<>>
    /\ stdin = ""
    /\ prompted = FALSE
    /\ cachepw = ""
    /\ dir = NoDir
    /\ b = Nil
    /\ asked = 0
    /\ unlocks = 0
    /\ backups = <<>>
    /\ encrypted = FALSE
    /\ phase = "start"
    /\ listing = <<>>
    /\ before = 0
    /\ rows = <<>>
    /\ failed = <<>>

NextPIN ==
    \/ Call
    \/ Spawn
    \/ WaitChan
    \/ \E w \in 1..Len(workers) : WorkerStep(w)
    \/ \E w \in 1..Len(workers) : WorkerDone(w)
    \/ WaiterWake
    \/ \E w \in 1..Len(workers) : RecvFound(w)
    \/ RecvDone
    \/ Again

SpecPIN == InitPIN /\ [][NextPIN]_vars

(***************************************************************************)
(* One findPIN call under fair scheduling: the Go scheduler eventually     *)
(* runs every goroutine that can take a step (the caller in its loop and   *)
(* in the select, each worker, the waiter).  The key is non-empty, as      *)
(* generateReport guarantees before it calls findPIN.                      *)
(***************************************************************************)
InitPINFair ==
    /\ InitPIN
    /\ key = <<1>>
    /\ salt = <<1>>

NextPINFair ==
    \/ Call
    \/ Spawn
    \/ WaitChan
    \/ \E w \in 1..Len(workers) : WorkerStep(w)
    \/ \E w \in 1..Len(workers) : WorkerDone(w)
    \/ WaiterWake
    \/ \E w \in 1..Len(workers) : RecvFound(w)
    \/ RecvDone

FairPIN ==
    /\ WF_vars(Spawn)
    /\ WF_vars(WaitChan)
    /\ \A w \in 1..MaxCPU : WF_vars(w \in 1..Len(workers) /\ WorkerStep(w))
    /\ \A w \in 1..MaxCPU : WF_vars(w \in 1..Len(workers) /\ WorkerDone(w))
    /\ WF_vars(WaiterWake)
    /\ WF_vars(RecvDone \/ \E w \in 1..Len(workers) : RecvFound(w))

SpecPINFair == InitPINFair /\ [][NextPINFair]_vars /\ FairPIN

(***************************************************************************)
(* The partition loop of findPIN on the keyspace of maxPIN candidates, for *)
(* every number of CPUs up to MaxWorkers.  The goroutines are started but  *)
(* not run: the sub-ranges do not depend on their progress.                *)
(***************************************************************************)
InitPartition ==
    /\ key = <<1>>
    /\ salt = <<1>>
    /\ space = maxPIN
    /\ dk = <<>>
    /\ NumCPU \in 1..MaxWorkers
    /\ pc = "loop"
    /\ i = 0
    /\ start = 0
    /\ end = 0
    /\ workers = <<>>
    /\ wg = 0
    /\ waiter = "none"
    /\ waitc = 0
    /\ ret = NoRet
    /\ evaluated = {}
    /\ calls = <<>>
    /\ stdin = ""
    /\ prompted = FALSE
    /\ cachepw = ""
    /\ dir = NoDir
    /\ b = Nil
    /\ asked = 0
    /\ unlocks = 0
    /\ backups = <<>>
    /\ encrypted = FALSE
    /\ phase = "start"
    /\ listing = <<>>
    /\ before = 0
    /\ rows = <<>>
    /\ failed = <<>>

NextPartition ==
    \/ Spawn
    \/ WaitChan

SpecPartition == InitPartition /\ [][NextPartition]_vars

(***************************************************************************)
(* The directories loadBackup is run on.                                   *)
(***************************************************************************)
\* The values go-plist can leave in Manifest.IsEncrypted (an interface{}):
\* nil when the key is absent, bool, uint64 for a non-negative <integer>,
\* int64 for a negative one, string, float64; the type switch also names int.
FlagValues ==
    {[kind |-> "nil"],
     [kind |-> "bool", val |-> TRUE], [kind |-> "bool", val |-> FALSE],
     [kind |-> "uint64", val |-> 0], [kind |-> "uint64", val |-> 1],
     [kind |-> "uint64", val |-> 2],
     [kind |-> "int", val |-> 0], [kind |-> "int", val |-> 1],
     [kind |-> "int64", val |-> -1],
     [kind |-> "float64", val |-> 1],
     [kind |-> "string", val |-> "true"]}

\* Product versions: iOS 12, iOS 11, and "9" (shorter than the prefix).
Versions == {<<"1", "2", ".", "1">>, <<"1", "1", ".", "4">>, <<"9">>}

\* File contents: not a plist; the test vector (its base64 digits start
\* "ioN6", the salt is "iNciDA"); a dict with the key only.
NotPlist == [plist |-> FALSE]
PinData ==
    [plist |-> TRUE,
     dict |-> [RestrictionsPasswordKey |-> <<34, 40, 13, 58>>,
               RestrictionsPasswordSalt |-> <<34, 13, 28, 34, 3, 0>>]]
KeyOnlyData ==
    [plist |-> TRUE, dict |-> [RestrictionsPasswordKey |-> <<34, 40>>]]
\* A dict whose key is <data> and whose salt is a <string>.
KeyStringSalt ==
    [plist |-> TRUE, dict |-> [RestrictionsPasswordKey |-> <<34, 40, 13, 58>>],
     mistyped |-> "RestrictionsPasswordSalt"]
\* A well-formed property list whose dict has neither field.
EmptyDict == [plist |-> TRUE, dict |-> <<>>]
Contents == {NotPlist, PinData, KeyOnlyData, KeyStringSalt, EmptyDict}

\* What can be at one of the two locations of the restrictions file.
Nodes == {[kind |-> "absent"], [kind |-> "dir"]}
             \cup {[kind |-> "file", content |-> c] : c \in Contents}

\* The same for a backup whose files are ciphertext.
CipherNodes == {[kind |-> "absent"], [kind |-> "dir"],
                [kind |-> "file", content |-> NotPlist]}

\* The tree with node top at the top-level location and node sub at the
\* sharded one.
TreeOf(top, sub) ==
    LET t == <<restrictionsPlistName>>
        s == <<SubSeq(restrictionsPlistName, 1, 2), restrictionsPlistName>>
        at(p, n) == IF n.kind = "absent" THEN <<>> ELSE (p :> n)
    IN  at(t, top) @@ at(s, sub)

\* The encrypted container: whether iosbackup.Open succeeds, its password,
\* whether Load succeeds, whether it has a record for the restrictions
\* file, whether ReadFile succeeds, and the decrypted content.
EncOK ==
    [open |-> TRUE, password |-> "secret", load |-> TRUE, rec |-> TRUE,
     read |-> TRUE, data |-> PinData]
EncAnswers ==
    {EncOK,
     [EncOK EXCEPT !.open = FALSE], [EncOK EXCEPT !.load = FALSE],
     [EncOK EXCEPT !.rec = FALSE],  [EncOK EXCEPT !.read = FALSE],
     [EncOK EXCEPT !.data = NotPlist], [EncOK EXCEPT !.data = KeyStringSalt]}

\* What the operator can type at the password prompt ("" skips).
Passwords == {"", "secret", "wrong"}

InfoOK(t, v) == [state |-> "ok", LastBackup |-> t, ProductVersion |-> v]
ManifestOK(f) == [state |-> "ok", IsEncrypted |-> f]
Missing == [state |-> "absent"]
Unparsable == [state |-> "bad"]
\* os.Open fails: the directory cannot be read or is gone
Unreadable == [state |-> "denied"]

Dir(path, ptr, info, manifest, tree, enc) ==
    [path |-> path, ptr |-> ptr, info |-> info, manifest |-> manifest,
     tree |-> tree, enc |-> enc]

\* The directories loadBackup is run on, one at a time.
LoadDirs ==
    LET p == <<"sync", 0>>
    IN  {Dir(p, 0, inf, ManifestOK([kind |-> "nil"]), <<>>, EncOK) :
             inf \in {Missing, Unparsable}}
        \cup {Dir(p, 0, InfoOK(1, v), m, <<>>, EncOK) :
                 v \in Versions, m \in {Missing, Unparsable}}
        \cup {Dir(p, 0, InfoOK(1, v), ManifestOK(f), TreeOf(top, sub), EncOK) :
                 v \in Versions, f \in FlagValues, top \in Nodes, sub \in Nodes}
        \cup {Dir(p, 0, InfoOK(1, v), ManifestOK(f), TreeOf(top, sub), e) :
                 v \in Versions, f \in FlagValues,
                 top \in CipherNodes, sub \in CipherNodes, e \in EncAnswers}

(***************************************************************************)
(* loadBackup called on one directory after another, as the loop of        *)
(* loadBackups does; prompted and cachepw persist between the calls.       *)
(***************************************************************************)
LoadBackup(d) ==
    /\ dir = NoDir
    /\ LET r == loadBackup(d, [prompted |-> prompted, cachepw |-> cachepw], stdin)
       IN  /\ b' = r.b
           /\ prompted' = r.prompted
           /\ cachepw' = r.cachepw
           /\ asked' = asked + r.asked
           /\ unlocks' = r.unlocks
    /\ dir' = d
    /\ UNCHANGED <<stdin, pinVars, catVars>>

\* The loop goes on to the next directory.
NextDir ==
    /\ dir # NoDir
    /\ dir' = NoDir
    /\ b' = Nil
    /\ unlocks' = 0
    /\ UNCHANGED <<stdin, prompted, cachepw, asked>>
    /\ UNCHANGED <<pinVars, catVars>>

\* No search is under way.
InitIdlePIN ==
    /\ key = <<>>
    /\ salt = <<>>
    /\ space = 0
    /\ dk = <<>>
    /\ NumCPU = 1
    /\ pc = "idle"
    /\ i = 0
    /\ start = 0
    /\ end = 0
    /\ workers = <<>>
    /\ wg = 0
    /\ waiter = "none"
    /\ waitc = 0
    /\ ret = NoRet
    /\ evaluated = {}
    /\ calls = <<>>

InitLoad ==
    /\ InitIdlePIN
    /\ stdin \in Passwords
    /\ prompted = FALSE
    /\ cachepw = ""
    /\ dir = NoDir
    /\ b = Nil
    /\ asked = 0
    /\ unlocks = 0
    /\ backups = <<>>
    /\ encrypted = FALSE
    /\ phase = "start"
    /\ listing = <<>>
    /\ before = 0
    /\ rows = <<>>
    /\ failed = <<>>

NextLoad ==
    \/ \E d \in LoadDirs : LoadBackup(d)
    \/ NextDir

SpecLoad == InitLoad /\ [][NextLoad]_vars

(***************************************************************************)
(* The catalog: backups.Less/Swap/Len, sort.Sort(sort.Reverse(b)).         *)
(***************************************************************************)
\* backups.Less(i, j): LastBackup of i is Before that of j
Less(l, m, n) == l[m].Info.LastBackup < l[n].Info.LastBackup

\* (mutant) the order of sort.Sort(b), without sort.Reverse
ReverseLessForgotten(l, m, n) == Less(l, m, n)

\* sort.Reverse(b).Less(i, j)
ReverseLess(l, m, n) == Less(l, n, m)

\* sort.IsSorted on sort.Reverse(b)
IsSorted(l) == \A m \in 1..(Len(l) - 1) : ~ReverseLess(l, m + 1, m)

\* The rearrangements of the list l.
Rearranged(l) ==
    {[m \in 1..Len(l) |-> l[p[m]]] : p \in Permutations(1..Len(l))}

\* (mutant) the first element is left where it is
SortFromSecond(l) ==
    IF Len(l) = 0 THEN {l}
    ELSE {<<l[1]>> \o s : s \in {t \in Rearranged(Tail(l)) : IsSorted(t)}}

\* sort.Sort(sort.Reverse(b)): sort.Sort is not a stable sort; it leaves the
\* list in one of its rearrangements that are in order.
Sort(l) == {s \in Rearranged(l) : IsSorted(s)}

(***************************************************************************)
(* loadBackups(syncDir) and main.                                          *)
(***************************************************************************)
\* The path of the n-th directory.
PathOf(n) == <<"sync", n>>

\* Last Backup Date values.
Times == 1..MaxTime

\* One entry of d.Readdir(-1): a regular file, or a directory that is not a
\* backup (no Info.plist), one whose Manifest.plist does not parse, an
\* unencrypted backup with a passcode file, or an encrypted one.
Entries ==
    {[kind |-> "notdir"], [kind |-> "nobackup"], [kind |-> "nomanifest"],
     [kind |-> "enc", time |-> 1]}
        \cup {[kind |-> "plain", time |-> t] : t \in Times}

\* The directory behind entry e, the n-th one to become a record.
EntryDir(e, n) ==
    CASE e.kind = "nobackup" ->
           Dir(PathOf(n), n, Missing,
               ManifestOK([kind |-> "bool", val |-> FALSE]), <<>>, EncOK)
      [] e.kind = "badinfo" ->
           Dir(PathOf(n), n, Unparsable,
               ManifestOK([kind |-> "bool", val |-> FALSE]), <<>>, EncOK)
      [] e.kind = "missingmanifest" ->
           Dir(PathOf(n), n, InfoOK(1, <<"1", "1", ".", "4">>), Missing,
               TreeOf([kind |-> "file", content |-> PinData], [kind |-> "absent"]),
               EncOK)
      [] e.kind = "nomanifest" ->
           Dir(PathOf(n), n, InfoOK(1, <<"1", "1", ".", "4">>), Unparsable,
               TreeOf([kind |-> "file", content |-> PinData], [kind |-> "absent"]),
               EncOK)
      [] e.kind = "plain" ->
           Dir(PathOf(n), n, InfoOK(e.time, <<"1", "1", ".", "4">>),
               ManifestOK([kind |-> "bool", val |-> FALSE]),
               TreeOf([kind |-> "file", content |-> PinData], [kind |-> "absent"]),
               EncOK)
      [] e.kind = "enc" ->
           Dir(PathOf(n), n, InfoOK(e.time, <<"1", "1", ".", "4">>),
               ManifestOK([kind |-> "bool", val |-> TRUE]),
               TreeOf([kind |-> "file", content |-> NotPlist], [kind |-> "absent"]),
               EncOK)
      [] e.kind = "unreadable" ->
           Dir(PathOf(n), n, Unreadable, Unreadable, <<>>, EncOK)
      [] e.kind = "nofile" ->
           Dir(PathOf(n), n, InfoOK(e.time, <<"1", "1", ".", "4">>),
               ManifestOK([kind |-> "bool", val |-> FALSE]), <<>>, EncOK)
      [] e.kind = "malformed" ->
           Dir(PathOf(n), n, InfoOK(e.time, <<"1", "1", ".", "4">>),
               ManifestOK([kind |-> "bool", val |-> FALSE]),
               TreeOf([kind |-> "file", content |-> NotPlist], [kind |-> "absent"]),
               EncOK)
      [] e.kind = "badsalt" ->
           Dir(PathOf(n), n, InfoOK(e.time, <<"1", "1", ".", "4">>),
               ManifestOK([kind |-> "bool", val |-> FALSE]),
               TreeOf([kind |-> "file", content |-> KeyStringSalt],
                      [kind |-> "absent"]),
               EncOK)
      [] e.kind = "ios12" ->
           Dir(PathOf(n), n, InfoOK(e.time, <<"1", "2", ".", "1">>),
               ManifestOK([kind |-> "bool", val |-> FALSE]),
               TreeOf([kind |-> "file", content |-> PinData], [kind |-> "absent"]),
               EncOK)

\* The results of d.Readdir(-1): every sequence of at most MaxEntries entries.
Listings == UNION {[1..n -> Entries] : n \in 0..MaxEntries}

\* The directories main may be given as its one argument: those of a listing,
\* one whose Info.plist does not parse and one without a Manifest.plist.
Arguments ==
    (Entries \ {[kind |-> "notdir"]})
        \cup {[kind |-> "badinfo"], [kind |-> "missingmanifest"]}

\* (mutant) the loop ends at the first directory that is not a backup
AfterInvalidStop(fl) == <<>>

\* What is left of the listing fl after its head turned out not to be a
\* backup: the loop goes on with the next entry.
AfterInvalid(fl) == Tail(fl)

\* The for loop of loadBackups over the listing fl, from the state acc.
RECURSIVE LoadEntries(_, _, _)
LoadEntries(fl, acc, typed) ==
    IF fl = <<>> THEN acc
    ELSE IF Head(fl).kind = "notdir" THEN LoadEntries(Tail(fl), acc, typed)
    ELSE LET r == loadBackup(EntryDir(Head(fl), Len(acc.backups) + 1),
                             [prompted |-> acc.prompted, cachepw |-> acc.cachepw],
                             typed)
         IN  IF r.b = Nil
               THEN LoadEntries(AfterInvalid(fl), acc, typed)
               ELSE LoadEntries(Tail(fl),
                        [backups |-> Append(acc.backups, r.b),
                         encrypted |-> acc.encrypted
                                         \/ isEncrypted(r.b.Manifest.IsEncrypted),
                         prompted |-> r.prompted,
                         cachepw |-> r.cachepw,
                         asked |-> acc.asked + r.asked],
                        typed)

NoListing == <<[kind |-> "none"]>>

\* loadBackups(syncDir) on a directory that can be read: the loop, then the
\* sort of the whole list; it returns nil.
LoadBackups(fl) ==
    /\ phase \in {"start", "scan"}
    /\ listing = NoListing
    /\ \E r \in {LoadEntries(fl, [backups |-> backups, encrypted |-> encrypted,
                                   prompted |-> prompted, cachepw |-> cachepw,
                                   asked |-> asked], stdin)} :
           /\ Len(r.backups) <= MaxBackups
           /\ backups' \in Sort(r.backups)
           /\ encrypted' = r.encrypted
           /\ prompted' = r.prompted
           /\ cachepw' = r.cachepw
           /\ asked' = r.asked
    /\ listing' = fl
    /\ before' = Len(backups)
    /\ phase' = "scan"
    /\ UNCHANGED <<stdin, dir, b, unlocks, rows, failed>>
    /\ UNCHANGED pinVars

\* loadBackups(syncDir) on a directory that cannot be opened or read: it
\* returns the error and main exits with status 101.
LoadBackupsFails ==
    /\ phase \in {"start", "scan"}
    /\ listing = NoListing
    /\ phase' = "exit101"
    /\ UNCHANGED <<stdin, prompted, cachepw, dir, b, asked, unlocks, backups,
                   encrypted, listing, before, rows, failed>>
    /\ UNCHANGED pinVars

\* main goes on to the next sync directory.
NextRoot ==
    /\ phase = "scan"
    /\ listing # NoListing
    /\ listing' = NoListing
    /\ before' = 0
    /\ UNCHANGED <<stdin, prompted, cachepw, dir, b, asked, unlocks, backups,
                   encrypted, phase, rows, failed>>
    /\ UNCHANGED pinVars

\* main with one argument: loadBackup(args[0]); nil is "Invalid backup
\* directory", exit status 101.
LoadSingle(e) ==
    /\ phase = "start"
    /\ LET r == loadBackup(EntryDir(e, 1),
                           [prompted |-> prompted, cachepw |-> cachepw], stdin)
       IN  /\ IF r.b = Nil
                THEN /\ phase' = "exit101"
                     /\ UNCHANGED <<backups, encrypted>>
                ELSE /\ phase' = "loaded"
                     /\ backups' = <<r.b>>
                     /\ encrypted' = isEncrypted(r.b.Manifest.IsEncrypted)
           /\ prompted' = r.prompted
           /\ cachepw' = r.cachepw
           /\ asked' = asked + r.asked
           /\ b' = r.b
    /\ dir' = EntryDir(e, 1)
    /\ UNCHANGED <<stdin, unlocks, listing, before, rows, failed>>
    /\ UNCHANGED pinVars

\* Every sync directory has been loaded.
ScanDone ==
    /\ phase \in {"start", "scan"}
    /\ listing = NoListing
    /\ phase' = "loaded"
    /\ UNCHANGED <<stdin, prompted, cachepw, dir, b, asked, unlocks, backups,
                   encrypted, listing, before, rows, failed>>
    /\ UNCHANGED pinVars

\* The row generateReport prints for record r when findPIN answers pin.
Row(r, pin) ==
    [ptr |-> r.ptr,
     LastBackup |-> r.Info.LastBackup,
     text |-> IF Len(r.Restrictions.Key) > 0
                THEN (IF pin = "error" THEN "Failed to find passcode" ELSE pin)
                ELSE r.Status]

\* (mutant) every record that was searched gets the diagnostic block
RECURSIVE FailedOfSearched(_, _)
FailedOfSearched(l, pins) ==
    IF l = <<>> THEN <<>>
    ELSE (IF Len(Head(l).Restrictions.Key) > 0 THEN <<Head(l).ptr>> ELSE <<>>)
         \o FailedOfSearched(Tail(l), Tail(pins))

\* The records of l, in order, whose search failed.
RECURSIVE FailedOf(_, _)
FailedOf(l, pins) ==
    IF l = <<>> THEN <<>>
    ELSE (IF Len(Head(l).Restrictions.Key) > 0 /\ Head(pins) = "error"
            THEN <<Head(l).ptr>> ELSE <<>>)
         \o FailedOf(Tail(l), Tail(pins))

(***************************************************************************)
(* A whole run of main over one sync directory that can be read, possibly  *)
(* followed by one that cannot, with every kind of record in the listing.  *)
(***************************************************************************)
\* (mutant) the report ends at the first record whose search failed
GenerateReportUntilFailure(pins) ==
    /\ phase = "loaded"
    /\ LET stop == {n \in 1..Len(backups) :
                       Len(backups[n].Restrictions.Key) > 0 /\ pins[n] = "error"}
           last == IF stop = {} THEN Len(backups)
                   ELSE CHOOSE n \in stop : \A m \in stop : n <= m
       IN  /\ rows' = [n \in 1..last |-> Row(backups[n], pins[n])]
           /\ failed' = FailedOf(SubSeq(backups, 1, last), SubSeq(pins, 1, last))
    /\ phase' = "reported"
    /\ UNCHANGED <<stdin, prompted, cachepw, dir, b, asked, unlocks, backups,
                   encrypted, listing, before>>
    /\ UNCHANGED pinVars

\* generateReport: one row per record in the order of the list; findPIN
\* answers a passcode or the error for each record it is called on.
GenerateReport(pins) ==
    /\ phase = "loaded"
    /\ rows' = [n \in 1..Len(backups) |-> Row(backups[n], pins[n])]
    /\ failed' = FailedOf(backups, pins)
    /\ phase' = "reported"
    /\ UNCHANGED <<stdin, prompted, cachepw, dir, b, asked, unlocks, backups,
                   encrypted, listing, before>>
    /\ UNCHANGED pinVars

\* main before any directory is loaded; the operator answers the password
\* prompt with an empty line.
InitCatalog ==
    /\ InitIdlePIN
    /\ stdin = ""
    /\ prompted = FALSE
    /\ cachepw = ""
    /\ dir = NoDir
    /\ b = Nil
    /\ asked = 0
    /\ unlocks = 0
    /\ backups = <<>>
    /\ encrypted = FALSE
    /\ phase = "start"
    /\ listing = NoListing
    /\ before = 0
    /\ rows = <<>>
    /\ failed = <<>>

NextCatalog ==
    \/ \E fl \in Listings : LoadBackups(fl)
    \/ LoadBackupsFails
    \/ NextRoot
    \/ \E e \in Arguments : LoadSingle(e)
    \/ ScanDone
    \/ \E pins \in [1..Len(backups) -> {"1234", "error"}] : GenerateReport(pins)

SpecCatalog == InitCatalog /\ [][NextCatalog]_vars

\* The entries of the sync directory of a run: a regular file, a directory
\* without Info.plist, a directory that cannot be read, and backups all of
\* the same time: one without the restrictions file, one whose file is not a
\* plist, one whose file has a key and a salt of the wrong type, an iOS 12
\* one, an encrypted one and one with a passcode.
RunEntries ==
    {[kind |-> "notdir"], [kind |-> "nobackup"], [kind |-> "unreadable"]}
        \cup {[kind |-> k, time |-> 1] :
                 k \in {"nofile", "malformed", "badsalt", "ios12", "enc", "plain"}}

RunListings == UNION {[1..n -> RunEntries] : n \in 0..MaxEntries}

InitRun ==
    /\ InitIdlePIN
    /\ stdin \in Passwords
    /\ prompted = FALSE
    /\ cachepw = ""
    /\ dir = NoDir
    /\ b = Nil
    /\ asked = 0
    /\ unlocks = 0
    /\ backups = <<>>
    /\ encrypted = FALSE
    /\ phase = "start"
    /\ listing = NoListing
    /\ before = 0
    /\ rows = <<>>
    /\ failed = <<>>

NextRun ==
    \/ \E fl \in RunListings : phase = "start" /\ LoadBackups(fl)
    \/ LoadBackupsFails
    \/ NextRoot
    \/ ScanDone
    \/ \E pins \in [1..Len(backups) -> {"1234", "error"}] : GenerateReport(pins)

SpecRun == InitRun /\ [][NextRun]_vars

(***************************************************************************)
(* Properties of findPIN (specification SpecPIN).                          *)
(***************************************************************************)
\* The zero-padded 4-digit decimal string of c, written out digit by digit.
FourDigits(c) == <<(c \div 1000) % 10, (c \div 100) % 10, (c \div 10) % 10, c % 10>>

\* The candidates of the keyspace whose derived key is byte-equal to key.
TrueMatches == {c \in 0..(space - 1) : dk[FourDigits(c)] = key}

\* findPIN has returned to generateReport.
Returned == pc = "done" /\ ret.kind \in {"pin", "error"}

\* C1: when the key is non-empty and exactly one candidate c of the keyspace
\* derives to key, a findPIN call that has returned has returned the
\* zero-padded 4-digit string of c and no error, for every worker count and
\* every interleaving; the "failed to calculate PIN" error is never returned.
C1_UniqueMatchIsReturned ==
    (Len(key) > 0 /\ Cardinality(TrueMatches) = 1 /\ pc = "done")
        => \E c \in TrueMatches : ret = [kind |-> "pin", pin |-> FourDigits(c)]

\* C1 witness: a call with several workers returned the unique match, which
\* lies in the remainder the last worker gets.
C1_Witness ==
    /\ Len(key) > 0
    /\ TrueMatches = {space - 1}
    /\ NumCPU = 2
    /\ pc = "done"
    /\ ret = [kind |-> "pin", pin |-> FourDigits(space - 1)]

\* C2: when no candidate of the keyspace derives to key, a findPIN call that
\* has returned has returned the error and no passcode, and every candidate
\* of the keyspace had been evaluated by some worker before it returned.
C2_NoMatchIsExhausted ==
    (Len(key) > 0 /\ TrueMatches = {} /\ pc = "done")
        => (ret = [kind |-> "error"] /\ evaluated = 0..(space - 1))

\* C2 witness: the error was returned by a call with several workers.
C2_Witness ==
    /\ Len(key) > 0
    /\ TrueMatches = {}
    /\ NumCPU > 1
    /\ pc = "done"
    /\ ret.kind = "error"
    /\ evaluated = 0..(space - 1)

\* The workers whose sub-range [start, end) holds candidate c.
OwnersOf(c) == {w \in 1..Len(workers) : workers[w].start <= c /\ c < workers[w].end}

\* C3: once findPIN has started its W workers (1 <= W <= MaxWorkers), worker
\* number n (from 0) has the sub-range that starts at n * (maxPIN div W)
\* and ends at (n + 1) * (maxPIN div W), or at maxPIN for the last worker; no
\* sub-range reaches outside [0, maxPIN) and every candidate of [0, maxPIN)
\* lies in the sub-range of exactly one worker.
C3_SubRangesPartition ==
    pc = "select" =>
        /\ Len(workers) = NumCPU
        /\ \A w \in 1..NumCPU :
              /\ workers[w].start = (w - 1) * (space \div NumCPU)
              /\ workers[w].end = IF w = NumCPU THEN space
                                              ELSE w * (space \div NumCPU)
              /\ 0 <= workers[w].start
              /\ workers[w].start <= workers[w].end
              /\ workers[w].end <= space
        /\ \A c \in 0..(space - 1) : Cardinality(OwnersOf(c)) = 1

\* C3 witness: 64 workers were started on the 10000 candidates; 10000 is
\* not a multiple of 64 and the last worker got the remainder.
C3_Witness ==
    /\ pc = "select"
    /\ space = 10000
    /\ NumCPU = 64
    /\ Len(workers) = 64
    /\ workers[64].start = 63 * 156
    /\ workers[64].end = 10000
    /\ workers[1].end = 156

\* C4 (as stated): whatever the set of matching candidates, a findPIN call
\* that has returned has returned the outcome of every earlier call on the
\* same (key, salt).
C4_SameOutcomeAlways ==
    Returned => \A n \in 1..Len(calls) : calls[n] = ret

\* C4 (amended): when at most one candidate of the keyspace matches, a
\* findPIN call that has returned has returned the outcome of every earlier
\* call on the same (key, salt), whatever the scheduling of the workers.
C4_SameOutcomeIfUnique ==
    (Returned /\ Cardinality(TrueMatches) <= 1)
        => \A n \in 1..Len(calls) : calls[n] = ret

\* C4 witness: a second call with several workers returned the same passcode
\* as the first.
C4_Witness ==
    /\ Returned
    /\ Cardinality(TrueMatches) = 1
    /\ NumCPU > 1
    /\ Len(calls) = 1
    /\ calls[1] = ret
    /\ ret.kind = "pin"

\* C5 (as stated): with an empty key or an empty salt the search evaluates
\* no candidate and returns neither a passcode nor the exhausted error.
C5_MalformedFailsFast ==
    (Len(key) = 0 \/ Len(salt) = 0)
        => (evaluated = {} /\ ret.kind \notin {"pin", "error"})

\* C5 (amended): with an empty key generateReport does not call findPIN: no
\* candidate is evaluated and the row shows the record's status; an empty
\* salt is not checked: with a non-empty key the search runs as for any salt
\* and returns a passcode or the exhausted error after evaluating candidates.
C5_OnlyEmptyKeyIsSkipped ==
    /\ Len(key) = 0 => (evaluated = {} /\ workers = <<>>
                        /\ (pc = "done" => ret = [kind |-> "status"]))
    /\ (Len(key) > 0 /\ Len(salt) = 0 /\ pc = "done")
          => (ret.kind \in {"pin", "error"} /\ evaluated # {})

\* C5 witness: a search on an empty salt ran and returned a passcode.
C5_Witness ==
    /\ pc = "done"
    /\ Len(key) > 0
    /\ Len(salt) = 0
    /\ ret.kind = "pin"
    /\ evaluated # {}

(***************************************************************************)
(* Properties of loadBackup (specification SpecLoad).                      *)
(***************************************************************************)
\* loadBackup has just been run on dir and returned a record.
Loaded == dir # NoDir /\ b # Nil

\* C9 (as stated): the record's flag is classified encrypted exactly when it
\* is a non-zero integer (of any integer type) or boolean true; absent,
\* integer 0, boolean false and every other type are not encrypted.
C9_AnyNonZeroInteger ==
    Loaded =>
        LET v == b.Manifest.IsEncrypted
        IN  isEncrypted(v) =
              \/ v.kind \in {"int", "uint64", "int64"} /\ v.val # 0
              \/ v.kind = "bool" /\ v.val = TRUE

\* C9 (amended): the record's flag is classified encrypted exactly when it
\* is a non-zero value of Go type int or uint64, or boolean true; absent
\* (nil), integer 0, boolean false and every other type, an integer of
\* another Go type such as int64 included, are not encrypted.
C9_IntUint64OrTrue ==
    Loaded =>
        LET v == b.Manifest.IsEncrypted
        IN  isEncrypted(v) =
              \/ v.kind \in {"int", "uint64"} /\ v.val # 0
              \/ v.kind = "bool" /\ v.val = TRUE

\* C9 witness: a backup whose manifest holds the integer 1 was loaded with
\* the right password and went through the unlocker.
C9_Witness ==
    /\ Loaded
    /\ b.Manifest.IsEncrypted = [kind |-> "uint64", val |-> 1]
    /\ isEncrypted(b.Manifest.IsEncrypted)
    /\ unlocks = 1
    /\ b.Restrictions.Key # <<>>

\* The flag of directory d is one the manifest of an unencrypted backup has.
Unencrypted(d) ==
    \/ d.manifest.IsEncrypted.kind = "nil"
    \/ d.manifest.IsEncrypted = [kind |-> "bool", val |-> FALSE]
    \/ d.manifest.IsEncrypted = [kind |-> "uint64", val |-> 0]

\* Directory d is a valid backup of a supported version whose restrictions
\* file is only at the sharded location, nothing being at the top-level one.
OnlySharded(d) ==
    /\ d.info.state = "ok"
    /\ d.manifest.state = "ok"
    /\ d.info.ProductVersion # <<"1", "2", ".", "1">>
    /\ <<restrictionsPlistName>> \notin DOMAIN d.tree
    /\ <<<<"3", "9">>, restrictionsPlistName>> \in DOMAIN d.tree
    /\ d.tree[<<<<"3", "9">>, restrictionsPlistName>>].kind = "file"

\* Directory d with the file of its sharded location placed directly in it.
MovedToTop(d) ==
    [d EXCEPT !.tree = (<<restrictionsPlistName>> :>
                          d.tree[<<<<"3", "9">>, restrictionsPlistName>>])]

\* C10: for an unencrypted backup whose restrictions file is only at
\* <backupDir>/<first two characters of the name>/<name>, loadBackup yields
\* the key, the salt and the status it yields for the same file placed
\* directly in <backupDir>.
C10_ShardedSameAsTop ==
    (dir # NoDir /\ OnlySharded(dir) /\ Unencrypted(dir)) =>
        LET flat == loadBackup(MovedToTop(dir),
                               [prompted |-> FALSE, cachepw |-> ""], "").b
        IN  /\ b # Nil
            /\ flat # Nil
            /\ b.Restrictions = flat.Restrictions
            /\ b.Status = flat.Status
            /\ b.RestrictionsPath.rel = <<<<"3", "9">>, restrictionsPlistName>>
            /\ flat.RestrictionsPath.rel = <<restrictionsPlistName>>

\* C10 witness: the test vector was read from the sharded location: key
\* 8a 83 7a, salt 88 d7 22 0c.
C10_Witness ==
    /\ dir # NoDir
    /\ OnlySharded(dir)
    /\ Unencrypted(dir)
    /\ b # Nil
    /\ b.Status = ""
    /\ b.Restrictions = [Key |-> <<138, 131, 122>>, Salt |-> <<136, 215, 34, 12>>]

(***************************************************************************)
(* Properties of the catalog (specification SpecCatalog).                  *)
(***************************************************************************)
\* C6: after loadBackups has run over any sequence of roots the catalog is in
\* LastBackup-descending order (for all positions m < n the time of record m
\* is not before that of record n), whatever order the directories were
\* enumerated in and however they are split across roots; the report has one
\* row per record in that order, the most recently backed-up device first.
C6_CatalogNewestFirst ==
    /\ \A m, n \in 1..Len(backups) :
          m < n => backups[m].Info.LastBackup >= backups[n].Info.LastBackup
    /\ phase = "reported" =>
          /\ Len(rows) = Len(backups)
          /\ \A n \in 1..Len(rows) : rows[n].ptr = backups[n].ptr
          /\ \A n \in 1..Len(rows) : rows[1].LastBackup >= rows[n].LastBackup

\* C6 witness: three records with distinct times, found over two roots with
\* the newest one found last, have been reported newest first.
C6_Witness ==
    /\ phase = "reported"
    /\ Len(rows) = 3
    /\ rows[1].ptr = 3
    /\ rows[1].LastBackup > rows[2].LastBackup
    /\ rows[2].LastBackup > rows[3].LastBackup

\* C7 as stated: two records with equal LastBackup times are in the catalog
\* in the order in which they were discovered.
C7_TiesInDiscoveryOrder ==
    \A m, n \in 1..Len(backups) :
        (m < n /\ backups[m].Info.LastBackup = backups[n].Info.LastBackup)
            => backups[m].ptr < backups[n].ptr

\* C7: the catalog holds every discovered record exactly once, and records
\* with equal LastBackup times are next to each other (no record with another
\* time comes between them); their relative order is not fixed.
C7_TiesAdjacentAnyOrder ==
    /\ {backups[n].ptr : n \in 1..Len(backups)} = 1..Len(backups)
    /\ \A m, n \in 1..Len(backups) :
          (m < n /\ backups[m].Info.LastBackup = backups[n].Info.LastBackup)
              => \A k \in m..n :
                    backups[k].Info.LastBackup = backups[m].Info.LastBackup

\* C7 witness: two records with equal times, the later discovered one first.
C7_Witness ==
    /\ Len(backups) >= 2
    /\ backups[1].Info.LastBackup = backups[2].Info.LastBackup
    /\ backups[1].ptr > backups[2].ptr

\* The entries of the listing fl that are directories in which Info.plist and
\* Manifest.plist are both present and parse.
ValidIn(fl) ==
    {n \in 1..Len(fl) :
        /\ fl[n].kind # "notdir"
        /\ EntryDir(fl[n], 1).info.state = "ok"
        /\ EntryDir(fl[n], 1).manifest.state = "ok"}

\* C8: a directory whose Info.plist or Manifest.plist is absent or does not
\* parse never becomes a record: loadBackup on it returns nil and main exits
\* with status 101 and an empty catalog; a loadBackups call that met such
\* directories succeeded and added exactly the other directories of the
\* listing; every record of the catalog has its Info and Manifest populated.
C8_InvalidDirsAreLeftOut ==
    /\ (dir # NoDir /\ (dir.info.state # "ok" \/ dir.manifest.state # "ok"))
          => (b = Nil /\ phase = "exit101" /\ backups = <<>>)
    /\ listing # NoListing
          => /\ phase = "scan"
             /\ Len(backups) = before + Cardinality(ValidIn(listing))
    /\ \A n \in 1..Len(backups) :
          /\ backups[n] # Nil
          /\ backups[n].Info.LastBackup \in Times
          /\ backups[n].Manifest.IsEncrypted.kind = "bool"

\* C8 witness: the second root listed a directory without a readable
\* manifest and then a backup; the call succeeded and added the backup only.
C8_Witness ==
    /\ listing # NoListing
    /\ Len(listing) = 2
    /\ listing[1].kind = "nomanifest"
    /\ listing[2].kind = "plain"
    /\ before >= 1
    /\ phase = "scan"
    /\ Len(backups) = before + 1

(***************************************************************************)
(* Properties of loadBackup and decrypt (specification SpecLoad).          *)
(***************************************************************************)
\* Neither <backupDir>/<name> nor <backupDir>/<first two characters>/<name>
\* exists in directory d.
MissingBoth(d) ==
    /\ <<restrictionsPlistName>> \notin DOMAIN d.tree
    /\ <<<<"3", "9">>, restrictionsPlistName>> \notin DOMAIN d.tree

\* The product version of directory d begins with "12.".
Version12(d) ==
    /\ Len(d.info.ProductVersion) >= 3
    /\ SubSeq(d.info.ProductVersion, 1, 3) = <<"1", "2", ".">>

\* The step is a loadBackup call that returned a record.
LoadedNow == dir' # NoDir /\ b' # Nil

\* C11 as stated: every loadBackup call on a backup whose restrictions file
\* is missing at both locations leaves the status "none", requests no
\* password and attempts no unlock.
C11_MissingIsNone ==
    [][(LoadedNow /\ MissingBoth(dir'))
          => (/\ b'.Status = "none"
              /\ asked' = asked
              /\ prompted' = prompted
              /\ unlocks' = 0)]_vars

\* C11: every loadBackup call on a backup whose product version does not
\* begin with "12." and whose restrictions file is missing at both locations
\* leaves the status "none", whatever the encryption flag; the call requests
\* no password and attempts no unlock.  (With a "12." version the status is
\* the unsupported-version one.)
C11_MissingIsNoneUnless12 ==
    [][(LoadedNow /\ MissingBoth(dir'))
          => (/\ asked' = asked
              /\ prompted' = prompted
              /\ unlocks' = 0
              /\ b'.Restrictions = [Key |-> <<>>, Salt |-> <<>>]
              /\ b'.Status = IF Version12(dir') THEN "iOS 12 not supported yet :-("
                                                ELSE "none")]_vars

\* C11 witness: an encrypted iOS 11 backup without a restrictions file was
\* loaded before any prompt: status "none", still not prompted, no unlock.
C11_Witness ==
    /\ Loaded
    /\ MissingBoth(dir)
    /\ ~Version12(dir)
    /\ dir.manifest.IsEncrypted = [kind |-> "bool", val |-> TRUE]
    /\ b.Status = "none"
    /\ ~prompted
    /\ asked = 0
    /\ unlocks = 0

\* The manifest flag of directory d is one the code takes for encrypted.
EncryptedFlag(d) ==
    LET v == d.manifest.IsEncrypted
    IN  \/ v.kind \in {"int", "uint64"} /\ v.val # 0
        \/ v.kind = "bool" /\ v.val = TRUE

\* What is at the relative path rel of directory d: "absent", "dir", "file".
KindAt(d, rel) == IF rel \in DOMAIN d.tree THEN d.tree[rel].kind ELSE "absent"

\* The restrictions file of directory d is where loadBackup looks for it: a
\* regular file at the top level, or, nothing being there, at the sharded
\* location.
Present(d) ==
    \/ KindAt(d, <<restrictionsPlistName>>) = "file"
    \/ /\ KindAt(d, <<restrictionsPlistName>>) = "absent"
       /\ KindAt(d, <<<<"3", "9">>, restrictionsPlistName>>) = "file"

\* What C12 says of the record b loaded from directory d.
C12_Outcome ==
    /\ cachepw = ""
          => /\ b.Status = "backup is encrypted"
             /\ unlocks = 0
             /\ b.Restrictions = [Key |-> <<>>, Salt |-> <<>>]
    /\ (cachepw # "" /\ dir.enc.open /\ cachepw # dir.enc.password)
          => /\ b.Status = "incorrect encryption password"
             /\ b.Restrictions = [Key |-> <<>>, Salt |-> <<>>]

UnlockedNoRecord ==
    /\ Loaded
    /\ EncryptedFlag(dir)
    /\ Present(dir)
    /\ ~Version12(dir)
    /\ cachepw # ""
    /\ dir.enc.open
    /\ cachepw = dir.enc.password
    /\ dir.enc.load
    /\ ~dir.enc.rec

\* C13 as stated: an encrypted record unlocked with the supplied password
\* whose container has no record for the restrictions file has the status
\* "none" (no passcode stored).
C13_UnlockedNoRecordIsNone ==
    UnlockedNoRecord => b.Status = "none"

\* C13 witness: such a record was loaded; its status is "need encryption
\* password" although the password was given and accepted.
C13_Witness ==
    /\ UnlockedNoRecord
    /\ unlocks = 1
    /\ b.Status = "need encryption password"

\* C14: over a whole run, whatever directories are loaded in whatever order,
\* the operator is prompted at most once; once the prompt has happened no
\* later call prompts again, and the password every later call works with is
\* the one typed at that prompt, the empty one included: an encrypted record
\* loaded afterwards is skipped as "backup is encrypted" when it was empty
\* and goes to the unlocker otherwise.
C14_PromptedAtMostOnce ==
    [][/\ asked' <= 1
       /\ prompted' <=> asked' = 1
       /\ prompted' => cachepw' = stdin
       /\ prompted => /\ prompted'
                      /\ asked' = asked
                      /\ cachepw' = cachepw
                      /\ (LoadedNow /\ EncryptedFlag(dir') /\ Present(dir')
                            /\ ~Version12(dir'))
                           => IF cachepw = ""
                                THEN /\ b'.Status = "backup is encrypted"
                                     /\ unlocks' = 0
                                ELSE unlocks' = 1]_vars

\* C14 witness: after the one prompt, answered with the right password, an
\* encrypted backup was unlocked and its key read.
C14_Witness ==
    /\ asked = 1
    /\ prompted
    /\ cachepw = "secret"
    /\ Loaded
    /\ EncryptedFlag(dir)
    /\ unlocks = 1
    /\ b.Status = ""
    /\ b.Restrictions.Key = <<138, 131, 122>>

Encrypted12WithPassword ==
    /\ Loaded
    /\ Version12(dir)
    /\ EncryptedFlag(dir)
    /\ Present(dir)
    /\ dir.enc.open /\ dir.enc.load /\ dir.enc.rec /\ dir.enc.read
    /\ dir.enc.data.plist
    /\ stdin = dir.enc.password

\* C16 as stated: an encrypted iOS 12 backup loaded with the right password
\* has its key and salt extracted through the unlocker (so that the passcode
\* is searched) and is not reported as unsupported.
C16_Encrypted12IsRecovered ==
    Encrypted12WithPassword
        => /\ b.Status # "iOS 12 not supported yet :-("
           /\ unlocks = 1
           /\ Len(b.Restrictions.Key) > 0

\* C16 witness: such a backup was loaded; it is reported as unsupported, the
\* operator was not asked for the password and there is no key to search.
C16_Witness ==
    /\ Encrypted12WithPassword
    /\ b.Status = "iOS 12 not supported yet :-("
    /\ asked = 0
    /\ unlocks = 0
    /\ Len(b.Restrictions.Key) = 0

(***************************************************************************)
(* Properties of a whole run (specification SpecRun).                      *)
(***************************************************************************)
\* C17: a loadBackups call that could read its directory succeeds and adds
\* every directory of the listing that has both metadata files, whatever
\* failed for the others or for the records themselves (no restrictions
\* file, a malformed one, an unlock failure); the report has a row for every
\* record of the catalog, also after a record whose search failed; a run
\* that ended with exit status 101 printed no report, whatever had been
\* loaded before.
C17_RecordFailuresDoNotAbort ==
    /\ listing # NoListing
          => /\ phase = "scan"
             /\ Len(backups) = before + Cardinality(ValidIn(listing))
    /\ phase \in {"loaded", "reported"}
          => {backups[n].ptr : n \in 1..Len(backups)} = 1..Len(backups)
    /\ phase = "reported"
          => /\ Len(rows) = Len(backups)
             /\ \A n \in 1..Len(rows) : rows[n].ptr = backups[n].ptr
    /\ phase = "exit101" => (rows = <<>> /\ failed = <<>>)

\* C17 witness: the first directory found had a restrictions file that is
\* not a plist, the second one a passcode; both are in the report, the
\* first with the decode error as its status, the second with its passcode.
C17_Witness ==
    /\ phase = "reported"
    /\ Len(rows) = 2
    /\ rows[1].ptr = 1
    /\ rows[1].text = "plist: decode error"
    /\ rows[2].ptr = 2
    /\ rows[2].text = "1234"

\* The status s is none of the fixed status texts: it is the text of an I/O
\* or decoding error.
IOErrorStatus(s) ==
    s \notin {"", "none", "backup is encrypted", "incorrect encryption password",
              "need encryption password", "iOS 12 not supported yet :-("}

\* The entries of the listing fl that are directories which cannot be read.
UnreadableIn(fl) == {n \in 1..Len(fl) : fl[n].kind = "unreadable"}

\* The positions of the list l whose record has an error text as status.
IOErrorsIn(l) == {n \in 1..Len(l) : IOErrorStatus(l[n].Status)}

\* C18 as stated: after a loadBackups call, every directory of the listing
\* that could not be read is in the catalog as a record whose status is an
\* error text.
C18_UnreadableIsIOErrorRecord ==
    listing # NoListing
        => Cardinality(IOErrorsIn(backups)) >= Cardinality(UnreadableIn(listing))

\* C18: a directory of the listing that cannot be read produces no record:
\* after a loadBackups call the catalog has grown by exactly the entries
\* that are readable directories with both metadata files, and the records
\* with an error text as status are at most the backups whose restrictions
\* file is malformed; the call succeeded, so discovery went on.
C18_UnreadableIsLeftOut ==
    listing # NoListing
        => /\ phase = "scan"
           /\ Len(backups) = before + Cardinality(
                  {n \in 1..Len(listing) :
                      listing[n].kind \notin {"notdir", "nobackup", "unreadable"}})
           /\ Cardinality(IOErrorsIn(backups))
                  <= Cardinality({n \in 1..Len(listing) :
                                     listing[n].kind \in {"malformed", "badsalt"}})

\* C18 witness: the listing had an unreadable directory and then a backup
\* with a passcode; the catalog holds the backup only.
C18_Witness ==
    /\ listing # NoListing
    /\ Len(listing) = 2
    /\ listing[1].kind = "unreadable"
    /\ listing[2].kind = "plain"
    /\ Len(backups) = 1
    /\ backups[1].Status = ""
    /\ Len(backups[1].Restrictions.Key) > 0

\* The records, in the order of the rows r, whose row says the search failed.
RECURSIVE FailedRows(_)
FailedRows(r) ==
    IF r = <<>> THEN <<>>
    ELSE (IF Head(r).text = "Failed to find passcode" THEN <<Head(r).ptr>> ELSE <<>>)
         \o FailedRows(Tail(r))

\* C19: the report has exactly one row per record of the catalog, in catalog
\* order; the row of a record with a key ends in the passcode found or in
\* "Failed to find passcode", the row of a record without a key in the
\* record's status; the records given the diagnostic block are exactly those
\* whose row says the search failed, in the same order.
C19_OneRowPerRecord ==
    phase = "reported"
        => /\ Len(rows) = Len(backups)
           /\ \A n \in 1..Len(rows) :
                 /\ rows[n].ptr = backups[n].ptr
                 /\ IF Len(backups[n].Restrictions.Key) > 0
                      THEN rows[n].text \in {"1234", "Failed to find passcode"}
                      ELSE rows[n].text = backups[n].Status
           /\ failed = FailedRows(rows)

\* C19 witness: a report of two records with a key; the search failed for
\* the first, which alone has the diagnostic block, and found the second's.
C19_Witness ==
    /\ phase = "reported"
    /\ Len(rows) = 2
    /\ rows[1].text = "Failed to find passcode"
    /\ rows[2].text = "1234"
    /\ failed = <<rows[1].ptr>>

\* C20 as stated: no step changes the status of a record that is in the
\* catalog, and in the report a record whose row is the passcode found has
\* no other status: its Status is empty.
C20_StatusOnceAndFoundExclusive ==
    [][/\ \A m \in 1..Len(backups), n \in 1..Len(backups') :
             backups[m].ptr = backups'[n].ptr
                 => backups[m].Status = backups'[n].Status
       /\ phase' = "reported"
             => \A n \in 1..Len(rows') :
                   rows'[n].text = "1234" => backups'[n].Status = ""]_vars

\* C20 witness: the report gives the passcode found for a record whose
\* Status is the decode error of its restrictions file.
C20_Witness ==
    /\ phase = "reported"
    /\ Len(rows) >= 1
    /\ rows[1].text = "1234"
    /\ backups[1].Status = "plist: decode error"
    /\ Len(backups[1].Restrictions.Key) > 0
    /\ backups[1].Restrictions.Salt = <<>>

(***************************************************************************)
(* Properties of the credential of a record (specification SpecLoad).      *)
(***************************************************************************)
\* loadBackup gets as far as reading the restrictions of directory d: the
\* version is supported, the file is where loadBackup looks for it and, for
\* an encrypted backup, the container was unlocked and the file read.
Readable(d) ==
    /\ ~Version12(d)
    /\ Present(d)
    /\ EncryptedFlag(d)
          => /\ cachepw # ""
             /\ d.enc.open
             /\ cachepw = d.enc.password
             /\ d.enc.load
             /\ d.enc.rec
             /\ d.enc.read

\* The content that is decoded for directory d.
ContentOf(d) ==
    IF EncryptedFlag(d)
      THEN d.enc.data
    ELSE IF KindAt(d, <<restrictionsPlistName>>) = "file"
      THEN d.tree[<<restrictionsPlistName>>].content
      ELSE d.tree[<<<<"3", "9">>, restrictionsPlistName>>].content

\* Content c is a property list whose fields all have the expected type.
WellFormed(c) == c.plist /\ "mistyped" \notin DOMAIN c

\* C21 as stated: a record has a key exactly when a readable, well-formed
\* restrictions file was found for it; a record with a key has a salt; a
\* readable file with malformed content gives an IOError status and no
\* credential; every record has a non-empty key or a non-empty status.
C21_CredentialIffWellFormed ==
    Loaded =>
        /\ (Len(b.Restrictions.Key) > 0)
              <=> (Readable(dir) /\ WellFormed(ContentOf(dir)))
        /\ Len(b.Restrictions.Key) > 0 => Len(b.Restrictions.Salt) > 0
        /\ (Readable(dir) /\ ~WellFormed(ContentOf(dir)))
              => /\ b.Status # ""
                 /\ b.Restrictions = [Key |-> <<>>, Salt |-> <<>>]
        /\ Len(b.Restrictions.Key) > 0 \/ b.Status # ""

\* C21 witness: an unencrypted iOS 11 backup whose restrictions file is a
\* property list without the two fields was loaded: the record has no
\* status and no key.
C21_Witness ==
    /\ Loaded
    /\ ~Version12(dir)
    /\ ~EncryptedFlag(dir)
    /\ Present(dir)
    /\ ContentOf(dir) = [plist |-> TRUE, dict |-> <<>>]
    /\ b.Status = ""
    /\ b.Restrictions = [Key |-> <<>>, Salt |-> <<>>]

(***************************************************************************)
(* Properties of the workers of findPIN (specification SpecPIN).           *)
(***************************************************************************)
\* C22: each worker evaluates the candidates of its sub-range in ascending
\* order (what it has evaluated is always an initial stretch of the
\* sub-range), each at most once (the candidate a worker evaluates in a step
\* had not been evaluated before); on its first match it reports that
\* candidate (it is the one it offers on the channel) and evaluates nothing
\* more, so no candidate above the lowest match of a sub-range is ever
\* evaluated.
C22_AscendingOnceStopAtMatch ==
    [][/\ \A w \in 1..Len(workers') :
             LET range == {c \in 0..(space - 1) :
                              workers'[w].start <= c /\ c < workers'[w].end}
             IN  /\ \A c \in range \cap evaluated' :
                        /\ \A lower \in range : lower < c => lower \in evaluated'
                        /\ \A lower \in range :
                              lower < c => dk[FourDigits(lower)] # key
                 /\ workers'[w].st \in {"send", "sent"}
                        => /\ workers'[w].j \in range \cap evaluated'
                           /\ dk[FourDigits(workers'[w].j)] = key
       /\ Len(workers') = Len(workers)
             => \A w \in 1..Len(workers) :
                   /\ workers[w].st \in {"send", "sent", "done"}
                         => workers'[w].j = workers[w].j
                   /\ workers'[w].j # workers[w].j
                         => /\ workers'[w].j = workers[w].j + 1
                            /\ workers[w].j \notin evaluated
                            /\ evaluated' = evaluated \cup {workers[w].j}
                   /\ (workers[w].st = "run" /\ workers'[w].st = "send")
                         => /\ workers[w].j \notin evaluated
                            /\ evaluated' = evaluated \cup {workers[w].j}
       /\ evaluated' # evaluated /\ evaluated' # {}
             => \E w \in 1..Len(workers) :
                   /\ workers[w].st = "run"
                   /\ evaluated' = evaluated \cup {workers[w].j}
                   /\ workers'[w] # workers[w]]_vars

\* C22 witness: the only worker reported candidate 1, its first match, and
\* never evaluated candidate 3, which matches as well.
C22_Witness ==
    /\ NumCPU = 1
    /\ Len(workers) = 1
    /\ {1, 3} \subseteq TrueMatches
    /\ 0 \notin TrueMatches
    /\ workers[1].st = "sent"
    /\ workers[1].j = 1
    /\ ret = [kind |-> "pin", pin |-> FourDigits(1)]
    /\ evaluated = {0, 1}

\* C23: findPIN returns as soon as a match is received, without waiting for
\* the other workers: while it is in the select a worker that offers a match
\* can always be received from, whatever the other workers are doing, and
\* the step that receives the match is the step that returns it.  After the
\* return a worker only goes on iterating, signals completion or blocks in
\* its send: the WaitGroup counter never becomes negative (a negative
\* counter is the panic of sync.WaitGroup), nothing is received from the
\* result channel any more and what was returned does not change.
C23_ReturnsOnFirstMatch ==
    /\ [](\A w \in 1..Len(workers) :
             (pc = "select" /\ workers[w].st = "send") => ENABLED RecvFound(w))
    /\ [][/\ wg' >= 0
          /\ Len(workers') = Len(workers)
                => \A w \in 1..Len(workers) :
                      (workers[w].st = "send" /\ workers'[w].st = "sent")
                          => /\ pc = "select"
                             /\ pc' = "done"
                             /\ ret' = [kind |-> "pin",
                                        pin |-> FourDigits(workers[w].j)]
          /\ (pc = "done" /\ pc' = "done")
                => /\ ret' = ret
                   /\ \A w \in 1..Len(workers) :
                         \/ workers'[w] = workers[w]
                         \/ /\ workers[w].st = "run"
                            /\ workers'[w].st \in {"run", "send", "done"}]_vars

\* C23 witness: findPIN has returned the match of the first worker while
\* the second worker is still in the middle of its sub-range.
C23_Witness ==
    /\ pc = "done"
    /\ ret.kind = "pin"
    /\ NumCPU = 2
    /\ Len(workers) = 2
    /\ workers[1].st = "sent"
    /\ workers[2].st = "run"
    /\ workers[2].start < workers[2].j
    /\ workers[2].j < workers[2].end

(***************************************************************************)
(* Properties of findPIN under fair scheduling (specification SpecPINFair).*)
(***************************************************************************)
\* C24: under fair scheduling every findPIN call eventually returns a
\* passcode or the error, for every worker count and every set of matching
\* candidates; the select is left either by receiving a match or, every
\* worker having signalled completion, by the all-done signal.
C24_EveryCallReturns ==
    /\ [](pc \in {"loop", "select"}
             => <>(pc = "done" /\ ret.kind \in {"pin", "error"}))
    /\ [][(pc = "select" /\ pc' = "done")
             => \/ /\ ret'.kind = "pin"
                   /\ \E w \in 1..Len(workers) :
                         workers[w].st = "send" /\ workers'[w].st = "sent"
                \/ /\ ret'.kind = "error"
                   /\ wg = 0
                   /\ \A w \in 1..Len(workers) : workers[w].st = "done"]_vars

\* C24 witness: a call with three workers returned the error after all
\* three had signalled completion.
C24_Witness ==
    /\ pc = "done"
    /\ ret.kind = "error"
    /\ NumCPU = 3
    /\ Len(workers) = 3
    /\ \A w \in 1..3 : workers[w].st = "done"
    /\ wg = 0
    /\ waiter = "done"

(***************************************************************************)
(* Properties of findPIN with several matches (specification SpecPIN).     *)
(***************************************************************************)
\* The candidates of the sub-range of worker w.
SubRange(w) == {c \in 0..(space - 1) : workers[w].start <= c /\ c < workers[w].end}

\* The lowest matching candidate of each sub-range that has one.
LowestMatches ==
    {c \in TrueMatches :
        \E w \in 1..Len(workers) :
            c \in SubRange(w) /\ \A m \in TrueMatches \cap SubRange(w) : c <= m}

\* C25: when two or more candidates of the keyspace match, a findPIN call
\* that has returned has returned a candidate that really matches and is the
\* lowest match of its worker's sub-range, never the error; the candidate
\* returned is the one of the worker whose report was received, and a match
\* another worker is still offering has no effect on it.
C25_CollisionReturnsARealMatch ==
    (Len(key) > 0 /\ Cardinality(TrueMatches) >= 2 /\ pc = "done")
        => /\ ret.kind = "pin"
           /\ \E c \in LowestMatches : ret.pin = FourDigits(c)
           /\ \E w \in 1..Len(workers) :
                 /\ workers[w].st = "sent"
                 /\ ret.pin = FourDigits(workers[w].j)
           /\ \A v \in 1..Len(workers) :
                 workers[v].st = "send" => workers[v].j \in LowestMatches

\* C25 witness: both workers found a match; the report of the second was
\* received first and its candidate, the higher one, was returned while the
\* first worker is still offering the lower one.
C25_Witness ==
    /\ pc = "done"
    /\ NumCPU = 2
    /\ Len(workers) = 2
    /\ Cardinality(TrueMatches) >= 2
    /\ workers[1].st = "send"
    /\ workers[2].st = "sent"
    /\ workers[1].j < workers[2].j
    /\ ret = [kind |-> "pin", pin |-> FourDigits(workers[2].j)]

(***************************************************************************)
(* Properties of the locator of the restrictions file (specification       *)
(* SpecLoad).  The locator is the part of loadBackup after the version     *)
(* check: it runs for the records whose version does not begin with "12.". *)
(***************************************************************************)
\* The two locations of the restrictions file of directory d.
TopLocation(d) == [dir |-> d.path, rel |-> <<restrictionsPlistName>>]
ShardedLocation(d) ==
    [dir |-> d.path, rel |-> <<<<"3", "9">>, restrictionsPlistName>>]

\* C26: the locator settles on the top-level location unless nothing exists
\* there, and only then on the two-character-prefix location; the path it
\* leaves in the record is one of these two; when a file exists at both
\* locations (of an unencrypted backup) what the record gets is what the
\* top-level file decodes to.
C26_TopLevelFirst ==
    (Loaded /\ ~Version12(dir))
        => /\ b.RestrictionsPath \in {TopLocation(dir), ShardedLocation(dir)}
           /\ b.RestrictionsPath = ShardedLocation(dir)
                 <=> KindAt(dir, <<restrictionsPlistName>>) = "absent"
           /\ (/\ KindAt(dir, <<restrictionsPlistName>>) = "file"
               /\ KindAt(dir, <<<<"3", "9">>, restrictionsPlistName>>) = "file"
               /\ ~EncryptedFlag(dir))
                 => LET c == dir.tree[<<restrictionsPlistName>>].content
                    IN  /\ b.RestrictionsPath = TopLocation(dir)
                        /\ b.Status = "" <=> WellFormed(c)
                        /\ Len(b.Restrictions.Key) > 0
                              <=> (c.plist /\ "RestrictionsPasswordKey" \in DOMAIN c.dict)

\* C26 witness: the top-level file is not a property list and the sharded
\* one is the test vector: the record has the decode error and no key.
C26_Witness ==
    /\ Loaded
    /\ ~Version12(dir)
    /\ ~EncryptedFlag(dir)
    /\ KindAt(dir, <<restrictionsPlistName>>) = "file"
    /\ KindAt(dir, <<<<"3", "9">>, restrictionsPlistName>>) = "file"
    /\ dir.tree[<<restrictionsPlistName>>].content = [plist |-> FALSE]
    /\ dir.tree[<<<<"3", "9">>, restrictionsPlistName>>].content.plist
    /\ b.RestrictionsPath = TopLocation(dir)
    /\ b.Status = "plist: decode error"
    /\ b.Restrictions.Key = <<>>

(***************************************************************************)
(* Properties of the calls of decrypt (specification SpecLoad).            *)
(***************************************************************************)
\* C27: a loadBackup call prompts for the password, changes the cached
\* password or calls the unlocker only when it returns a record that is
\* marked encrypted, whose restrictions file is where loadBackup looks for it
\* and whose version does not begin with "12."; a call on any other
\* directory, an unencrypted one in particular, neither prompts nor unlocks.
C27_DecryptOnlyForEncrypted ==
    [][(/\ dir' # NoDir
        /\ \/ asked' # asked
           \/ prompted' # prompted
           \/ cachepw' # cachepw
           \/ unlocks' > 0)
          => /\ b' # Nil
             /\ EncryptedFlag(dir')
             /\ Present(dir')
             /\ ~Version12(dir')]_vars

\* C27 witness: after an encrypted backup was unlocked with the password
\* typed at the only prompt, an unencrypted backup with its restrictions
\* file was loaded: no second prompt, no unlock.
C27_Witness ==
    /\ Loaded
    /\ ~EncryptedFlag(dir)
    /\ dir.manifest.IsEncrypted = [kind |-> "bool", val |-> FALSE]
    /\ Present(dir)
    /\ ~Version12(dir)
    /\ prompted
    /\ cachepw = "secret"
    /\ asked = 1
    /\ unlocks = 0
    /\ b.Status = ""
    /\ Len(b.Restrictions.Key) > 0

(***************************************************************************)
(* Properties of the WaitGroup of findPIN (specification SpecPIN).         *)
(***************************************************************************)
\* C28: the WaitGroup counter is lowered only by a worker that has gone
\* through its whole sub-range without a match, by one; a worker that has
\* matched never lowers it, so as long as a worker of the call offers or has
\* delivered a match the counter is at least one, the waiter has not woken,
\* the all-done signal is not in its channel and the error was not returned.
C28_DoneOnlyWhenExhausted ==
    [][/\ (wg' < wg /\ Len(workers') = Len(workers))
             => /\ wg' = wg - 1
                /\ \E w \in 1..Len(workers) :
                      /\ workers[w].st = "run"
                      /\ workers'[w].st = "done"
                      /\ workers[w].j = workers[w].end
                      /\ \A c \in SubRange(w) :
                            c \in evaluated /\ dk[FourDigits(c)] # key
       /\ (\E w \in 1..Len(workers') : workers'[w].st \in {"send", "sent"})
             => /\ wg' >= 1
                /\ waiter' # "done"
                /\ waitc' = 0
                /\ ret'.kind # "error"]_vars

\* C28 witness: the first worker ended without a match and signalled, the
\* second delivered its match and did not: findPIN has returned, the counter
\* is one and the waiter still waits.
C28_Witness ==
    /\ pc = "done"
    /\ NumCPU = 2
    /\ Len(workers) = 2
    /\ workers[1].st = "done"
    /\ workers[2].st = "sent"
    /\ wg = 1
    /\ waiter = "wait"
    /\ waitc = 0
    /\ ret.kind = "pin"

(***************************************************************************)
(* Properties of the goroutines of findPIN under fair scheduling           *)
(* (specification SpecPINFair).                                            *)
(***************************************************************************)
\* C29 as stated: every goroutine a findPIN call started eventually
\* terminates: each worker has returned (after wg.Done or after its send was
\* received) and the waiter has sent its signal.
C29_GoroutinesTerminate ==
    (pc = "select")
        ~> (/\ waiter = "done"
            /\ \A w \in 1..Len(workers) : workers[w].st \in {"done", "sent"})

\* C29 witness: findPIN has returned the match of the first worker; the
\* second worker is blocked in its send on the result channel nobody
\* receives from any more and the waiter is blocked in wg.Wait with the
\* counter at two.
C29_Witness ==
    /\ pc = "done"
    /\ ret.kind = "pin"
    /\ NumCPU = 2
    /\ Len(workers) = 2
    /\ workers[1].st = "sent"
    /\ workers[2].st = "send"
    /\ waiter = "wait"
    /\ wg = 2

(***************************************************************************)
(* Properties of the Path of a record (specification SpecLoad).            *)
(***************************************************************************)
\* C30 as stated: every record loadBackup returns has its Path equal to the
\* backup directory it was loaded from, whatever its status.
C30_PathIsBackupDir ==
    Loaded => b.Path = dir.path

\* C30 witness: the record of an iOS 12 backup has the unsupported-version
\* status and an empty Path.
C30_Witness ==
    /\ Loaded
    /\ Version12(dir)
    /\ dir.path # <<>>
    /\ b.Status = "iOS 12 not supported yet :-("
    /\ b.Path = <<>>

====
